---- MODULE Spec2Model ----
(***************************************************************************)
(* Model of the advertising-funnel data generator                          *)
(* (scripts/02_generate_iceberg_data.py): main() runs generate_campaigns,  *)
(* generate_impressions, generate_clicks and generate_conversions in       *)
(* sequence and then writes the four tables.                               *)
(*                                                                         *)
(* Time is held in whole seconds since midnight of day 0.  A calendar date *)
(* (the 'YYYY-MM-DD' strings the code produces with date.isoformat() and   *)
(* strftime) is held as its day number; a timestamp string produced by     *)
(* datetime.isoformat() is held as its second count.  Money is held in     *)
(* cents, rates in percent.                                                *)
(***************************************************************************)
EXTENDS Integers, Sequences, FiniteSets, TLC

(***************************************************************************)
(* Bounds of the model.                                                    *)
(***************************************************************************)
MaxCampaigns == 2
MaxImpressionsPerCampaign == 2
MaxImpressions == 2
MaxRuns == 2

(***************************************************************************)
(* Units.                                                                  *)
(***************************************************************************)
SecondsPerDay == 86400
SecondsPerHour == 3600
SecondsPerMinute == 60
PercentScale == 100
CentsPerDollar == 100

(***************************************************************************)
(* Constants of the generator.                                             *)
(***************************************************************************)
HeadroomDays == 30
MinDurationDays == 7
MaxDurationDays == 90
MinTargetCpaUsd == 5
MaxTargetCpaUsd == 100
MinClickOffsetSeconds == 1
MaxClickOffsetSeconds == 30
MaxShortDelayMinutes == 30
MaxLongDelayMinutes == 10080
FallbackCpaUsd == 50
MinRevenueFactorPct == 50
MaxRevenueFactorPct == 500
CampaignIdWidth == 6
EventIdWidth == 10

CAMPAIGN_STATUS == {"active", "paused", "completed", "draft"}
EligibleStatus == {"active", "completed"}
GEO_REGIONS == {"US-EAST", "APAC"}
DEVICE_TYPES == {"desktop", "mobile"}
StageNames == <<"campaigns", "impressions", "clicks", "conversions">>
TableNames == <<"campaigns", "impressions", "clicks", "conversions">>

(***************************************************************************)
(* datetime / date helpers.                                                *)
(***************************************************************************)
Days(n) == n * SecondsPerDay
Minutes(n) == n * SecondsPerMinute
\* datetime.date(), and the date part that strftime('%Y-%m-%d') prints
DateOf(t) == t \div SecondsPerDay
\* datetime.hour
HourOf(t) == (t % SecondsPerDay) \div SecondsPerHour
\* datetime.fromisoformat() of a date-only string: midnight of that date
FromIsoDate(d) == d * SecondsPerDay
Min(a, b) == IF a <= b THEN a ELSE b

(***************************************************************************)
(* Identifier formatting: f'CMP-{str(n).zfill(6)}' and friends.            *)
(***************************************************************************)
RECURSIVE ZFill(_, _)
ZFill(s, width) == IF Len(s) >= width THEN s ELSE ZFill("0" \o s, width)

FormatId(prefix, n, width) == prefix \o ZFill(ToString(n), width)
CampaignId(n) == FormatId("CMP-", n, CampaignIdWidth)
ImpressionId(n) == FormatId("IMP-", n, EventIdWidth)
ClickId(n) == FormatId("CLK-", n, EventIdWidth)
ConversionId(n) == FormatId("CNV-", n, EventIdWidth)

(***************************************************************************)
(* round(): Python rounds halves to the even neighbour.  num/den >= 0.     *)
(***************************************************************************)
RoundHalfEven(num, den) ==
    LET q == num \div den
        r == num % den
    IN  IF 2 * r < den THEN q
        ELSE IF 2 * r > den THEN q + 1
        ELSE IF q % 2 = 0 THEN q ELSE q + 1

\* The rows of a table, as a set
Rows(table) == {table[k] : k \in 1..Len(table)}

(***************************************************************************)
(* pandas DataFrame.sample(frac=...) without random_state: the rows are    *)
(* taken without replacement, in an order chosen by numpy's global         *)
(* generator, which the script never seeds.                                *)
(***************************************************************************)
\* (variant: int(frac * len), which cuts the fraction off)
SampleCountTruncated(num, den, len) == (num * len) \div den

\* round(frac * len) rows for frac = num/den
SampleCount(num, den, len) == RoundHalfEven(num * len, den)
SampleSize(frac, len) == SampleCount(frac, PercentScale, len)
SampleRaises(frac) == frac > PercentScale \/ frac < 0
\* (variant: sample(frac=..., replace=True), a row may be taken twice)
SamplesWithReplacement(n, k) == [1..k -> 1..n]

\* every ordered choice of k distinct row positions out of 1..n
OrderedSamples(n, k) ==
    {s \in [1..k -> 1..n] : \A a, b \in 1..k : a # b => s[a] # s[b]}

(***************************************************************************)
(* Faker.date_between(start, end): both ends are cut down to dates and any *)
(* date from start to end can come back; start after end raises.           *)
(* Faker.date_time_between(start, end): any instant from start to end; a   *)
(* window of at most one second gives start plus a fraction of a second.   *)
(***************************************************************************)
DateBetweenRaises(start, end) == DateOf(start) > DateOf(end)
DateBetween(start, end) == DateOf(start)..DateOf(end)
DateTimeBetween(start, end) == IF end - start <= 1 THEN {start} ELSE {start, end}

(***************************************************************************)
(* The command line: the configurations a run is started with.             *)
(* Rates are percentages; start_dt and end_dt are the parsed window.       *)
(***************************************************************************)
BaseConfig ==
    [num_campaigns |-> 1,
     impressions_per_campaign |-> 1,
     click_rate |-> 40,
     conversion_rate |-> 100,
     start_dt |-> Days(30) + 12 * SecondsPerHour,
     end_dt |-> Days(61) + SecondsPerDay - 10,
     parquet |-> FALSE]

NumCampaignsChoices == {0 - 1} \cup (0..MaxCampaigns)
ImpressionsPerCampaignChoices == 1..MaxImpressionsPerCampaign
RateChoices == {0 - 50, 50, 100, 150}
EndChoices == {BaseConfig.end_dt, BaseConfig.start_dt + Days(30), BaseConfig.start_dt + Days(10)}

Configs ==
    {[BaseConfig EXCEPT !.num_campaigns = n] : n \in NumCampaignsChoices}
    \cup {[BaseConfig EXCEPT !.impressions_per_campaign = m] : m \in ImpressionsPerCampaignChoices}
    \cup {[BaseConfig EXCEPT !.click_rate = r] : r \in RateChoices}
    \cup {[BaseConfig EXCEPT !.conversion_rate = r] : r \in RateChoices}
    \cup {[BaseConfig EXCEPT !.end_dt = e] : e \in EndChoices}
    \cup {[BaseConfig EXCEPT !.parquet = TRUE]}

(***************************************************************************)
(* The values a seeded draw can take, one record per loop iteration.       *)
(***************************************************************************)
CampaignDraws(lo, hi) ==
    {[start_date |-> lo, duration |-> MinDurationDays, status |-> "active",
      target_cpa |-> MinTargetCpaUsd * CentsPerDollar, target_region |-> "US-EAST"],
     [start_date |-> hi, duration |-> MaxDurationDays, status |-> "completed",
      target_cpa |-> MaxTargetCpaUsd * CentsPerDollar, target_region |-> "APAC"],
     [start_date |-> lo, duration |-> MaxDurationDays, status |-> "paused",
      target_cpa |-> MaxTargetCpaUsd * CentsPerDollar, target_region |-> "US-EAST"],
     [start_date |-> hi, duration |-> MinDurationDays, status |-> "draft",
      target_cpa |-> MinTargetCpaUsd * CentsPerDollar, target_region |-> "APAC"]}

\* (variant: random.randint(0, impressions_per_campaign * 2))
ImpressionCountsFromZero(m) == 0..(m * 2)

ImpressionCounts(m) == (m \div 2)..(m * 2)

ImpressionDraws(lo, hi) ==
    {[ts |-> t, device_type |-> IF t = lo THEN "desktop" ELSE "mobile",
      targeted |-> (t = lo), region |-> IF t = lo THEN "US-EAST" ELSE "APAC",
      geo_country |-> IF t = lo THEN "US" ELSE "JP"] : t \in DateTimeBetween(lo, hi)}

\* (variant: random.randint(1, 31))
ClickDrawsOneMore ==
    {[offset |-> o] : o \in {MinClickOffsetSeconds, MaxClickOffsetSeconds + 1}}

ClickDraws == {[offset |-> o] : o \in {MinClickOffsetSeconds, MaxClickOffsetSeconds}}

ConversionDraws ==
    {[long |-> TRUE, minutes |-> MaxLongDelayMinutes, factor |-> MaxRevenueFactorPct],
     [long |-> FALSE, minutes |-> 1, factor |-> MinRevenueFactorPct]}

(***************************************************************************)
(* State.                                                                  *)
(***************************************************************************)
VARIABLES
    cfg,                  \* the options main() was called with
    pc,                   \* position of main()
    error,                \* exception that ended the run, or "none"
    run,                  \* number of this run of the script
    now,                  \* datetime.now() of this run
    tape,                 \* values drawn so far from the generators seeded with SEED
    pos,                  \* how many of them this run has consumed
    started,              \* stages whose progress task has been added
    finished,             \* stages whose progress task has been completed
    campaigns,            \* rows appended by generate_campaigns
    impressions,          \* rows appended by generate_impressions
    clicks,               \* rows appended by generate_clicks
    conversions,          \* rows appended by generate_conversions
    active_campaigns,     \* generate_impressions: the filtered campaign rows
    campaign_idx,         \* generate_impressions: campaigns iterated so far
    num_left,             \* generate_impressions: iterations left of the inner loop
    campaign_start,       \* generate_impressions: window of the current campaign
    campaign_end,
    impression_id,        \* generate_impressions: counter
    clicked_impressions,  \* generate_clicks: the sample
    click_id,             \* generate_clicks: counter
    converted_clicks,     \* generate_conversions: the sample
    campaign_cpa,         \* generate_conversions: campaign_id -> target_cpa_usd
    conversion_id,        \* generate_conversions: counter
    csv_files,            \* tables written by to_csv, in order
    parquet_files,        \* tables written by to_parquet, in order
    prev,                 \* csv_files of the previous run
    iceberg_campaigns,    \* 05_append_campaigns.py: rows of the Iceberg campaigns table
    append_pc,            \* 05_append_campaigns.py: position of main()
    append_n,             \* 05_append_campaigns.py: --num-campaigns
    new_campaigns,        \* 05_append_campaigns.py: rows of generate_new_campaigns
    sampling,             \* DataFrame.sample(frac=...) called on a large frame
    loader                \* 03_load_iceberg_aws.py: position and record of main()

rng == <<tape, pos>>
progress == <<started, finished>>
tables == <<campaigns, impressions, clicks, conversions>>
imp_locals == <<active_campaigns, campaign_idx, num_left, campaign_start, campaign_end, impression_id>>
click_locals == <<clicked_impressions, click_id>>
conv_locals == <<converted_clicks, campaign_cpa, conversion_id>>
files == <<csv_files, parquet_files>>
appender == <<iceberg_campaigns, append_pc, append_n, new_campaigns>>
other_scripts == <<appender, sampling, loader>>
vars == <<cfg, pc, error, run, now, rng, progress, tables, imp_locals, click_locals,
          conv_locals, files, prev, other_scripts>>

(***************************************************************************)
(* random.seed(SEED); Faker.seed(SEED): every run of the script draws the  *)
(* same values in the same order.  The first run to reach a position of    *)
(* the stream fixes the value there; later runs read it back.              *)
(***************************************************************************)
Seeded(domain) == IF pos < Len(tape) THEN {tape[pos + 1]} ELSE domain
Consume(v) ==
    /\ pos' = pos + 1
    /\ tape' = IF pos < Len(tape) THEN tape ELSE Append(tape, v)

\* (variant: main() catches the exception of a stage and goes on to save)
RaiseAndSave(name) ==
    /\ pc' = "save_parquet"
    /\ error' = name

\* nothing in main() catches an exception: it ends the run
Raise(name) ==
    /\ pc' = "failed"
    /\ error' = name

FreshRun ==
    /\ pc = "main"
    /\ error = "none"
    /\ pos = 0
    /\ started = <<>>
    /\ finished = <<>>
    /\ campaigns = <<>>
    /\ impressions = <<>>
    /\ clicks = <<>>
    /\ conversions = <<>>
    /\ active_campaigns = <<>>
    /\ campaign_idx = 0
    /\ num_left = 0
    /\ campaign_start = 0
    /\ campaign_end = 0
    /\ impression_id = 0
    /\ clicked_impressions = <<>>
    /\ click_id = 0
    /\ converted_clicks = <<>>
    /\ campaign_cpa = <<>>
    /\ conversion_id = 0
    /\ csv_files = <<>>
    /\ parquet_files = <<>>

\* the append script is not running and nothing is being sampled apart
\* from the pipeline
OthersIdle ==
    /\ iceberg_campaigns = <<>>
    /\ append_pc = "idle"
    /\ append_n = 0
    /\ new_campaigns = <<>>
    /\ sampling = [pc |-> "idle"]
    /\ loader = [pc |-> "idle"]

Init ==
    /\ cfg \in Configs
    /\ run = 1
    /\ now = 0
    /\ tape = <<>>
    /\ prev = <<>>
    /\ FreshRun
    /\ OthersIdle

(***************************************************************************)
(* generate_campaigns                                                      *)
(***************************************************************************)
CampaignRow(i, d) ==
    [campaign_id |-> CampaignId(i + 1),
     target_cpa_usd |-> d.target_cpa,
     target_region |-> d.target_region,
     status |-> d.status,
     start_date |-> d.start_date,
     end_date |-> d.start_date + d.duration,
     updated_at |-> now]

\* (variant: the 30 days of head-room are not taken off)
LatestStartNoHeadroom(end_date) == end_date

\* end_date - timedelta(days=30): the latest instant a campaign may start
LatestStart(end_date) == end_date - Days(HeadroomDays)

\* main() up to the call of generate_campaigns
CampaignsBegin ==
    /\ pc = "main"
    /\ pc' = "campaigns"
    /\ started' = Append(started, "campaigns")
    /\ UNCHANGED <<cfg, other_scripts, error, run, now, rng, finished, tables, imp_locals, click_locals,
                   conv_locals, files, prev>>

\* one iteration of the loop of generate_campaigns
CampaignStep ==
    /\ pc = "campaigns"
    /\ Len(campaigns) < cfg.num_campaigns
    /\ LET lo == cfg.start_dt
           hi == LatestStart(cfg.end_dt)
       IN  IF DateBetweenRaises(lo, hi)
           THEN /\ Raise("ValueError")
                /\ UNCHANGED <<rng, campaigns>>
           ELSE \E d \in Seeded(CampaignDraws(DateOf(lo), DateOf(hi))) :
                    /\ d.start_date \in DateBetween(lo, hi)
                    /\ campaigns' = Append(campaigns, CampaignRow(Len(campaigns), d))
                    /\ Consume(d)
                    /\ UNCHANGED <<pc, error>>
    /\ UNCHANGED <<cfg, other_scripts, run, now, progress, impressions, clicks, conversions, imp_locals,
                   click_locals, conv_locals, files, prev>>

(***************************************************************************)
(* generate_impressions                                                    *)
(***************************************************************************)
\* (variant: the status filter lets every campaign through)
IsEligibleAnyStatus(campaign) == campaign.status \in CAMPAIGN_STATUS

\* campaigns_df[campaigns_df['status'].isin(['active', 'completed'])]
IsEligible(campaign) == campaign.status \in EligibleStatus
ActiveCampaigns(df) == SelectSeq(df, IsEligible)

\* (variant: the campaign's end is not clipped to the end of the run)
WindowEndUnclipped(campaign, end_date) == FromIsoDate(campaign.end_date)

\* min(datetime.fromisoformat(campaign['end_date']), end_date)
WindowEnd(campaign, end_date) == Min(FromIsoDate(campaign.end_date), end_date)

\* (variant: impression_id = 0 sits inside the loop over the campaigns)
ResetImpressionId(counter) == 0

\* impression_id is set to 0 once, before the loop over the campaigns: the
\* value it has when the loop turns to the next campaign is the one it had
CarriedImpressionId(counter) == counter

ImpressionRow(id, campaign, d) ==
    [impression_id |-> ImpressionId(id),
     campaign_id |-> campaign.campaign_id,
     timestamp |-> d.ts,
     date_key |-> DateOf(d.ts),
     hour |-> HourOf(d.ts),
     device_type |-> d.device_type,
     geo_region |-> IF d.targeted THEN campaign.target_region ELSE d.region,
     geo_country |-> d.geo_country]

\* (variant: generate_impressions is started once the first campaign exists)
ImpressionsBeginEarly ==
    /\ pc = "campaigns"
    /\ Len(campaigns) >= 1
    /\ finished' = Append(finished, "campaigns")
    /\ started' = Append(started, "impressions")
    /\ pc' = "impressions"
    /\ active_campaigns' = ActiveCampaigns(campaigns)
    /\ UNCHANGED <<cfg, other_scripts, error, run, now, rng, tables, campaign_idx, num_left,
                   campaign_start, campaign_end, impression_id, click_locals, conv_locals,
                   files, prev>>

\* generate_campaigns returns; main() calls generate_impressions, which
\* filters the campaigns.  A frame built from no rows has no 'status' column.
ImpressionsBegin ==
    /\ pc = "campaigns"
    /\ Len(campaigns) >= cfg.num_campaigns
    /\ finished' = Append(finished, "campaigns")
    /\ started' = Append(started, "impressions")
    /\ IF Len(campaigns) = 0
       THEN /\ Raise("KeyError")
            /\ UNCHANGED active_campaigns
       ELSE /\ pc' = "impressions"
            /\ active_campaigns' = ActiveCampaigns(campaigns)
            /\ UNCHANGED error
    /\ UNCHANGED <<cfg, other_scripts, run, now, rng, tables, campaign_idx, num_left, campaign_start,
                   campaign_end, impression_id, click_locals, conv_locals, files, prev>>

\* the outer loop takes the next eligible campaign and draws its fan-out
ImpressionCampaign ==
    /\ pc = "impressions"
    /\ num_left = 0
    /\ campaign_idx < Len(active_campaigns)
    /\ LET campaign == active_campaigns[campaign_idx + 1]
       IN  \E n \in Seeded(ImpressionCounts(cfg.impressions_per_campaign)) :
               /\ Len(impressions) + n <= MaxImpressions
               /\ num_left' = n
               /\ impression_id' = CarriedImpressionId(impression_id)
               /\ campaign_idx' = campaign_idx + 1
               /\ campaign_start' = FromIsoDate(campaign.start_date)
               /\ campaign_end' = WindowEnd(campaign, cfg.end_dt)
               /\ Consume(n)
    /\ UNCHANGED <<cfg, other_scripts, pc, error, run, now, progress, tables, active_campaigns,
                   click_locals, conv_locals, files, prev>>

\* one iteration of the inner loop
ImpressionStep ==
    /\ pc = "impressions"
    /\ num_left > 0
    /\ LET campaign == active_campaigns[campaign_idx]
           id == impression_id + 1
       IN  \E d \in Seeded(ImpressionDraws(campaign_start, campaign_end)) :
               /\ impression_id' = id
               /\ impressions' = Append(impressions, ImpressionRow(id, campaign, d))
               /\ num_left' = num_left - 1
               /\ Consume(d)
    /\ UNCHANGED <<cfg, other_scripts, pc, error, run, now, progress, campaigns, clicks, conversions,
                   active_campaigns, campaign_idx, campaign_start, campaign_end,
                   click_locals, conv_locals, files, prev>>

(***************************************************************************)
(* generate_clicks                                                         *)
(***************************************************************************)
\* (variant: the offset is drawn from one second lower, randint(0, 29))
ClickOffsetFromZero(d) == d.offset - 1

\* timedelta(seconds=random.randint(1, 30))
ClickOffset(d) == d.offset

\* (variant: the click row takes its impression_id from the wrong column)
ClickRowWrongColumn(id, impression, d) ==
    LET click_ts == impression.timestamp + ClickOffset(d)
    IN  [click_id |-> ClickId(id),
         impression_id |-> impression.campaign_id,
         campaign_id |-> impression.campaign_id,
         timestamp |-> click_ts,
         date_key |-> DateOf(click_ts),
         device_type |-> impression.device_type,
         geo_region |-> impression.geo_region,
         geo_country |-> impression.geo_country]

\* (variant: the click's date_key is taken from the impression's timestamp)
ClickRowParentDate(id, impression, d) ==
    LET click_ts == impression.timestamp + ClickOffset(d)
    IN  [click_id |-> ClickId(id),
         impression_id |-> impression.impression_id,
         campaign_id |-> impression.campaign_id,
         timestamp |-> click_ts,
         date_key |-> DateOf(impression.timestamp),
         device_type |-> impression.device_type,
         geo_region |-> impression.geo_region,
         geo_country |-> impression.geo_country]

ClickRow(id, impression, d) ==
    LET click_ts == impression.timestamp + ClickOffset(d)
    IN  [click_id |-> ClickId(id),
         impression_id |-> impression.impression_id,
         campaign_id |-> impression.campaign_id,
         timestamp |-> click_ts,
         date_key |-> DateOf(click_ts),
         device_type |-> impression.device_type,
         geo_region |-> impression.geo_region,
         geo_country |-> impression.geo_country]

\* the rows of df at the sampled positions, in sampled order
Take(df, s) == [k \in 1..Len(s) |-> df[s[k]]]

\* (variant: the impression frame is cut down to the sample in place)
ClicksBeginInPlace ==
    /\ pc = "impressions"
    /\ num_left = 0
    /\ campaign_idx = Len(active_campaigns)
    /\ finished' = Append(finished, "impressions")
    /\ started' = Append(started, "clicks")
    /\ IF SampleRaises(cfg.click_rate)
       THEN /\ Raise("ValueError")
            /\ UNCHANGED <<clicked_impressions, impressions>>
       ELSE /\ pc' = "clicks"
            /\ \E s \in OrderedSamples(Len(impressions),
                                       SampleSize(cfg.click_rate, Len(impressions))) :
                   /\ clicked_impressions' = Take(impressions, s)
                   /\ impressions' = Take(impressions, s)
            /\ UNCHANGED error
    /\ UNCHANGED <<cfg, other_scripts, run, now, rng, campaigns, clicks, conversions,
                   imp_locals, click_id, conv_locals, files, prev>>

\* generate_impressions returns; main() calls generate_clicks, which samples
ClicksBegin ==
    /\ pc = "impressions"
    /\ num_left = 0
    /\ campaign_idx = Len(active_campaigns)
    /\ finished' = Append(finished, "impressions")
    /\ started' = Append(started, "clicks")
    /\ IF SampleRaises(cfg.click_rate)
       THEN /\ Raise("ValueError")
            /\ UNCHANGED clicked_impressions
       ELSE /\ pc' = "clicks"
            /\ \E s \in OrderedSamples(Len(impressions),
                                       SampleSize(cfg.click_rate, Len(impressions))) :
                   clicked_impressions' = Take(impressions, s)
            /\ UNCHANGED error
    /\ UNCHANGED <<cfg, other_scripts, run, now, rng, tables, imp_locals, click_id, conv_locals, files, prev>>

\* one iteration of the loop of generate_clicks
ClickStep ==
    /\ pc = "clicks"
    /\ click_id < Len(clicked_impressions)
    /\ \E d \in Seeded(ClickDraws) :
           /\ click_id' = click_id + 1
           /\ clicks' = Append(clicks, ClickRow(click_id + 1, clicked_impressions[click_id + 1], d))
           /\ Consume(d)
    /\ UNCHANGED <<cfg, other_scripts, pc, error, run, now, progress, campaigns, impressions, conversions,
                   imp_locals, clicked_impressions, conv_locals, files, prev>>

(***************************************************************************)
(* generate_conversions                                                    *)
(***************************************************************************)
\* campaigns_df.set_index('campaign_id')['target_cpa_usd'].to_dict()
CampaignCpa(df) ==
    [id \in {df[k].campaign_id : k \in 1..Len(df)} |->
        (CHOOSE row \in Rows(df) : row.campaign_id = id).target_cpa_usd]

\* the outcome of evaluating an expression: its value, or an exception
Value(v) == [raised |-> FALSE, value |-> v]
Raised(name) == [raised |-> TRUE, value |-> name]

\* (variant: campaign_cpa[click['campaign_id']], which raises on a miss)
TargetCpaSubscript(lookup, click) ==
    IF click.campaign_id \in DOMAIN lookup
    THEN Value(lookup[click.campaign_id])
    ELSE Raised("KeyError")

\* campaign_cpa.get(click['campaign_id'], 50), in cents
TargetCpa(lookup, click) ==
    IF click.campaign_id \in DOMAIN lookup
    THEN Value(lookup[click.campaign_id])
    ELSE Value(FallbackCpaUsd * CentsPerDollar)

\* (variant: the revenue is computed from the default CPA)
RevenueOfFallback(target_cpa, factor) ==
    RoundHalfEven(FallbackCpaUsd * CentsPerDollar * factor, PercentScale)

\* round(target_cpa * random.uniform(0.5, 5.0), 2), in cents
Revenue(target_cpa, factor) == RoundHalfEven(target_cpa * factor, PercentScale)

ConversionDelay(d) == Minutes(d.minutes)

\* (variant: geo_region is drawn again for the conversion)
ConversionRowRedrawn(id, click, target_cpa, d) ==
    LET conversion_ts == click.timestamp + ConversionDelay(d)
    IN  [conversion_id |-> ConversionId(id),
         click_id |-> click.click_id,
         impression_id |-> click.impression_id,
         campaign_id |-> click.campaign_id,
         timestamp |-> conversion_ts,
         date_key |-> DateOf(conversion_ts),
         revenue_usd |-> Revenue(target_cpa, d.factor),
         device_type |-> click.device_type,
         geo_region |-> IF d.long THEN "US-EAST" ELSE "APAC"]

ConversionRow(id, click, target_cpa, d) ==
    LET conversion_ts == click.timestamp + ConversionDelay(d)
    IN  [conversion_id |-> ConversionId(id),
         click_id |-> click.click_id,
         impression_id |-> click.impression_id,
         campaign_id |-> click.campaign_id,
         timestamp |-> conversion_ts,
         date_key |-> DateOf(conversion_ts),
         revenue_usd |-> Revenue(target_cpa, d.factor),
         device_type |-> click.device_type,
         geo_region |-> click.geo_region]

\* generate_clicks returns; generate_conversions is called with the clicks
\* and the campaign table df, samples the clicks and builds the CPA lookup
ConversionsBeginWith(df) ==
    /\ finished' = Append(finished, "clicks")
    /\ started' = Append(started, "conversions")
    /\ IF SampleRaises(cfg.conversion_rate)
       THEN /\ Raise("ValueError")
            /\ UNCHANGED <<converted_clicks, campaign_cpa>>
       ELSE /\ pc' = "conversions"
            /\ \E s \in OrderedSamples(Len(clicks),
                                       SampleSize(cfg.conversion_rate, Len(clicks))) :
                   converted_clicks' = Take(clicks, s)
            /\ campaign_cpa' = CampaignCpa(df)
            /\ UNCHANGED error
    /\ UNCHANGED <<cfg, other_scripts, run, now, rng, tables, imp_locals, click_locals, conversion_id,
                   files, prev>>

\* main() passes the campaign table it generated
ConversionsBegin ==
    /\ pc = "clicks"
    /\ click_id = Len(clicked_impressions)
    /\ ConversionsBeginWith(campaigns)

\* one iteration of the loop of generate_conversions
ConversionStep ==
    /\ pc = "conversions"
    /\ conversion_id < Len(converted_clicks)
    /\ LET click == converted_clicks[conversion_id + 1]
           target_cpa == TargetCpa(campaign_cpa, click)
       IN  IF target_cpa.raised
           THEN /\ Raise(target_cpa.value)
                /\ UNCHANGED <<rng, conversions, conversion_id>>
           ELSE \E d \in Seeded(ConversionDraws) :
                    /\ conversion_id' = conversion_id + 1
                    /\ conversions' = Append(conversions,
                                             ConversionRow(conversion_id + 1, click, target_cpa.value, d))
                    /\ Consume(d)
                    /\ UNCHANGED <<pc, error>>
    /\ UNCHANGED <<cfg, other_scripts, run, now, progress, campaigns, impressions, clicks, imp_locals,
                   click_locals, converted_clicks, campaign_cpa, files, prev>>

(***************************************************************************)
(* main(): saving and the summary                                          *)
(***************************************************************************)
TableOf(name) ==
    CASE name = "campaigns" -> campaigns
      [] name = "impressions" -> impressions
      [] name = "clicks" -> clicks
      [] name = "conversions" -> conversions

\* what to_csv / to_parquet is handed, table by table, in the order of the calls
AllTables == [k \in 1..Len(TableNames) |-> [name |-> TableNames[k], rows |-> TableOf(TableNames[k])]]

\* generate_conversions returns; main() writes the four CSV files
SaveCsv ==
    /\ pc = "conversions"
    /\ conversion_id = Len(converted_clicks)
    /\ finished' = Append(finished, "conversions")
    /\ csv_files' = AllTables
    /\ pc' = IF cfg.parquet THEN "save_parquet" ELSE "summary"
    /\ UNCHANGED <<cfg, other_scripts, error, run, now, rng, started, tables, imp_locals, click_locals,
                   conv_locals, parquet_files, prev>>

\* with --parquet, main() writes the four Parquet files
SaveParquet ==
    /\ pc = "save_parquet"
    /\ parquet_files' = AllTables
    /\ pc' = "summary"
    /\ UNCHANGED <<cfg, other_scripts, error, run, now, rng, progress, tables, imp_locals, click_locals,
                   conv_locals, csv_files, prev>>

\* the summary sums conversions_df['revenue_usd'], a column a frame built
\* from no rows does not have
Summary ==
    /\ pc = "summary"
    /\ IF Len(conversions) = 0
       THEN Raise("KeyError")
       ELSE pc' = "done" /\ UNCHANGED error
    /\ UNCHANGED <<cfg, other_scripts, run, now, rng, progress, tables, imp_locals, click_locals,
                   conv_locals, files, prev>>

Next ==
    \/ CampaignsBegin
    \/ CampaignStep
    \/ ImpressionsBegin
    \/ ImpressionCampaign
    \/ ImpressionStep
    \/ ClicksBegin
    \/ ClickStep
    \/ ConversionsBegin
    \/ ConversionStep
    \/ SaveCsv
    \/ SaveParquet
    \/ Summary

Spec == Init /\ [][Next]_vars

(***************************************************************************)
(* Running the script again.  The process starts afresh: the generators    *)
(* seeded with SEED start their streams over, the clock has moved on, and  *)
(* the files of the run before are kept for comparison.                    *)
(***************************************************************************)
Rerun ==
    /\ pc \in {"done", "failed"}
    /\ run < MaxRuns
    /\ run' = run + 1
    /\ now' = now + 1
    /\ prev' = csv_files
    /\ pc' = "main"
    /\ error' = "none"
    /\ pos' = 0
    /\ started' = <<>>
    /\ finished' = <<>>
    /\ campaigns' = <<>>
    /\ impressions' = <<>>
    /\ clicks' = <<>>
    /\ conversions' = <<>>
    /\ active_campaigns' = <<>>
    /\ campaign_idx' = 0
    /\ num_left' = 0
    /\ campaign_start' = 0
    /\ campaign_end' = 0
    /\ impression_id' = 0
    /\ clicked_impressions' = <<>>
    /\ click_id' = 0
    /\ converted_clicks' = <<>>
    /\ campaign_cpa' = <<>>
    /\ conversion_id' = 0
    /\ csv_files' = <<>>
    /\ parquet_files' = <<>>
    /\ UNCHANGED <<cfg, other_scripts, tape>>

RerunConfigs == {BaseConfig, [BaseConfig EXCEPT !.parquet = TRUE]}

InitRerun ==
    /\ Init
    /\ cfg \in RerunConfigs

NextRerun ==
    \/ Next
    \/ Rerun

SpecRerun == InitRerun /\ [][NextRerun]_vars

(***************************************************************************)
(* generate_conversions as a function of its arguments: called on a click  *)
(* table the pipeline has produced (two campaigns that ran, one impression *)
(* and one click each) with either the campaign table or the campaign      *)
(* table less one row (the rows that stay keep their columns).             *)
(***************************************************************************)
DropRow(df, k) == SubSeq(df, 1, k - 1) \o SubSeq(df, k + 1, Len(df))

ConversionsBeginWithout ==
    /\ pc = "clicks"
    /\ click_id = Len(clicked_impressions)
    /\ \E k \in 1..Len(campaigns) : ConversionsBeginWith(DropRow(campaigns, k))

RanDraws(start_dt, end_dt) ==
    {d \in CampaignDraws(DateOf(start_dt), DateOf(LatestStart(end_dt))) : IsEligible(d)}

InitLookupMiss ==
    /\ cfg = [BaseConfig EXCEPT !.num_campaigns = 2, !.click_rate = 100]
    /\ run = 1
    /\ now = 0
    /\ prev = <<>>
    /\ error = "none"
    /\ pc = "clicks"
    /\ started = <<"campaigns", "impressions", "clicks">>
    /\ finished = <<"campaigns", "impressions">>
    /\ \E d1, d2 \in RanDraws(cfg.start_dt, cfg.end_dt) :
           /\ campaigns = <<CampaignRow(0, d1), CampaignRow(1, d2)>>
           /\ \E i1 \in ImpressionDraws(FromIsoDate(campaigns[1].start_date),
                                        WindowEnd(campaigns[1], cfg.end_dt)),
                 i2 \in ImpressionDraws(FromIsoDate(campaigns[2].start_date),
                                        WindowEnd(campaigns[2], cfg.end_dt)) :
                  /\ impressions = <<ImpressionRow(1, campaigns[1], i1),
                                     ImpressionRow(2, campaigns[2], i2)>>
                  /\ \E k1, k2 \in ClickDraws :
                         /\ tape = <<d1, d2, 1, i1, 1, i2, k1, k2>>
                         /\ \E s \in OrderedSamples(2, 2) :
                                /\ clicked_impressions = Take(impressions, s)
                                /\ clicks = <<ClickRow(1, clicked_impressions[1], k1),
                                              ClickRow(2, clicked_impressions[2], k2)>>
    /\ pos = Len(tape)
    /\ conversions = <<>>
    /\ active_campaigns = campaigns
    /\ campaign_idx = Len(campaigns)
    /\ num_left = 0
    /\ campaign_start = FromIsoDate(campaigns[2].start_date)
    /\ campaign_end = WindowEnd(campaigns[2], cfg.end_dt)
    /\ impression_id = Len(impressions)
    /\ click_id = Len(clicks)
    /\ converted_clicks = <<>>
    /\ campaign_cpa = <<>>
    /\ conversion_id = 0
    /\ csv_files = <<>>
    /\ parquet_files = <<>>
    /\ OthersIdle

NextLookupMiss ==
    \/ ConversionsBegin
    \/ ConversionsBeginWithout
    \/ ConversionStep
    \/ SaveCsv

SpecLookupMiss == InitLookupMiss /\ [][NextLookupMiss]_vars

(***************************************************************************)
(* scripts/05_append_campaigns.py: main() generates --num-campaigns new    *)
(* campaign rows, connects to the Glue catalog, loads the Iceberg          *)
(* campaigns table and appends the rows to it.  Nothing in this script is  *)
(* seeded.  The table it appends to holds the campaigns the generator      *)
(* produced; every run of the script is a new process.                     *)
(***************************************************************************)
MaxNewCampaigns == 2

DefaultStartId == 1000
NewIdWidth == 4
LookbackDays == 30

\* f'CMP-NEW-{str(start_id + i).zfill(4)}'
NewCampaignId(n) == FormatId("CMP-NEW-", n, NewIdWidth)

NewCampaignDraws(lo, hi) ==
    {[start_date |-> lo, duration |-> MinDurationDays, status |-> "active",
      target_cpa |-> MinTargetCpaUsd * CentsPerDollar, target_region |-> "US-EAST"],
     [start_date |-> hi, duration |-> MaxDurationDays, status |-> "draft",
      target_cpa |-> MaxTargetCpaUsd * CentsPerDollar, target_region |-> "APAC"]}

NewCampaignRow(i, start_id, d, at) ==
    [campaign_id |-> NewCampaignId(start_id + i),
     target_cpa_usd |-> d.target_cpa,
     target_region |-> d.target_region,
     status |-> d.status,
     start_date |-> d.start_date,
     end_date |-> d.start_date + d.duration,
     updated_at |-> at]

\* (variant: table.overwrite(arrow_table))
IcebergOverwrite(rows, added) == added

\* table.append(arrow_table): a commit that adds the rows to the table
IcebergAppend(rows, added) == rows \o added

\* the campaigns table as the generator wrote it at the end of its window
PrimaryTables ==
    {[k \in 1..n |-> [CampaignRow(k - 1, d) EXCEPT !.updated_at = BaseConfig.end_dt]] :
        n \in 0..MaxCampaigns,
        d \in RanDraws(BaseConfig.start_dt, BaseConfig.end_dt)}

\* one iteration of the loop of generate_new_campaigns(num_campaigns),
\* which main() calls without a start_id
AppendGenerate ==
    /\ append_pc = "generate"
    /\ Len(new_campaigns) < append_n
    /\ \E d \in NewCampaignDraws(DateOf(now) - LookbackDays, DateOf(now)) :
           new_campaigns' = Append(new_campaigns,
                                   NewCampaignRow(Len(new_campaigns), DefaultStartId, d, now))
    /\ UNCHANGED <<cfg, pc, error, run, now, rng, progress, tables, imp_locals,
                   click_locals, conv_locals, files, prev, iceberg_campaigns, append_pc,
                   append_n, sampling, loader>>

\* GlueCatalog(...) and list_tables: an exception is printed and raised again
AppendConnect ==
    /\ append_pc = "generate"
    /\ Len(new_campaigns) >= append_n
    /\ \E connected \in BOOLEAN :
           IF connected
           THEN append_pc' = "connected" /\ UNCHANGED error
           ELSE append_pc' = "failed" /\ error' = "Exception"
    /\ UNCHANGED <<cfg, pc, run, now, rng, progress, tables, imp_locals, click_locals,
                   conv_locals, files, prev, iceberg_campaigns, append_n, new_campaigns,
                   sampling, loader>>

\* load_table and table.append: an exception of either is printed and
\* raised again, and the table is as it was
AppendToTable ==
    /\ append_pc = "connected"
    /\ \E outcome \in {"appended", "load failed", "append failed"} :
           IF outcome = "appended"
           THEN /\ iceberg_campaigns' = IcebergAppend(iceberg_campaigns, new_campaigns)
                /\ append_pc' = "done"
                /\ UNCHANGED error
           ELSE /\ append_pc' = "failed"
                /\ error' = "Exception"
                /\ UNCHANGED iceberg_campaigns
    /\ UNCHANGED <<cfg, pc, run, now, rng, progress, tables, imp_locals, click_locals,
                   conv_locals, files, prev, append_n, new_campaigns, sampling, loader>>

\* the script is run again, on a later day
AppendRerun ==
    /\ append_pc \in {"done", "failed"}
    /\ run < MaxRuns
    /\ run' = run + 1
    /\ now' = now + SecondsPerDay
    /\ error' = "none"
    /\ append_pc' = "generate"
    /\ new_campaigns' = <<>>
    /\ UNCHANGED <<cfg, pc, rng, progress, tables, imp_locals, click_locals, conv_locals,
                   files, prev, iceberg_campaigns, append_n, sampling, loader>>

InitAppend ==
    /\ cfg = BaseConfig
    /\ run = 1
    /\ now = BaseConfig.end_dt + SecondsPerDay
    /\ tape = <<>>
    /\ prev = <<>>
    /\ FreshRun
    /\ iceberg_campaigns \in PrimaryTables
    /\ append_pc = "generate"
    /\ append_n \in 0..MaxNewCampaigns
    /\ new_campaigns = <<>>
    /\ sampling = [pc |-> "idle"]
    /\ loader = [pc |-> "idle"]

NextAppend ==
    \/ AppendGenerate
    \/ AppendConnect
    \/ AppendToTable
    \/ AppendRerun

SpecAppend == InitAppend /\ [][NextAppend]_vars

(***************************************************************************)
(* generate_clicks and generate_conversions on a large frame: only the     *)
(* number of rows matters.  An impression frame of len rows is sampled     *)
(* with the click rate, and the click frame that results with the          *)
(* conversion rate.  A rate is the fraction num/den.                       *)
(***************************************************************************)
MaxExtraRows == 3

LargePopulation == 100 * 1000
Millionth == 1000 * 1000
Rate(num, den) == [num |-> num, den |-> den]

LargeFrameLengths == LargePopulation..(LargePopulation + MaxExtraRows)
ClickRates ==
    {Rate(1, Millionth), Rate(14, Millionth), Rate(25, Millionth), Rate(29, Millionth),
     Rate(2, PercentScale), Rate(1, 3), Rate(1, 1)}
ConversionRates == {Rate(5, PercentScale), Rate(1, 2), Rate(1, 1)}

\* clicked_impressions = impressions_df.sample(frac=click_rate), one click each
SampleClicks ==
    /\ sampling.pc = "impressions"
    /\ sampling' = [sampling EXCEPT
                        !.pc = "clicks",
                        !.clicks = SampleCount(sampling.click_rate.num,
                                               sampling.click_rate.den, sampling.len)]
    /\ UNCHANGED <<cfg, pc, error, run, now, rng, progress, tables, imp_locals,
                   click_locals, conv_locals, files, prev, appender, loader>>

\* converted_clicks = clicks_df.sample(frac=conversion_rate), one conversion each
SampleConversions ==
    /\ sampling.pc = "clicks"
    /\ sampling' = [sampling EXCEPT
                        !.pc = "conversions",
                        !.conversions = SampleCount(sampling.conversion_rate.num,
                                                    sampling.conversion_rate.den,
                                                    sampling.clicks)]
    /\ UNCHANGED <<cfg, pc, error, run, now, rng, progress, tables, imp_locals,
                   click_locals, conv_locals, files, prev, appender, loader>>

InitSampling ==
    /\ cfg = BaseConfig
    /\ run = 1
    /\ now = 0
    /\ tape = <<>>
    /\ prev = <<>>
    /\ FreshRun
    /\ iceberg_campaigns = <<>>
    /\ append_pc = "idle"
    /\ append_n = 0
    /\ new_campaigns = <<>>
    /\ loader = [pc |-> "idle"]
    /\ \E len \in LargeFrameLengths, r \in ClickRates, c \in ConversionRates :
           sampling = [pc |-> "impressions", len |-> len, click_rate |-> r,
                       conversion_rate |-> c, clicks |-> 0, conversions |-> 0]

NextSampling ==
    \/ SampleClicks
    \/ SampleConversions

SpecSampling == InitSampling /\ [][NextSampling]_vars

(***************************************************************************)
(* scripts/03_load_iceberg_aws.py: main() makes the Glue database ready    *)
(* and then, for each table name whose CSV file is in the data directory,  *)
(* converts the file to Parquet, uploads it to S3 and creates the Glue     *)
(* table.  The record keeps, per step, the table names the step was tried  *)
(* for and those it succeeded for in this run.                             *)
(***************************************************************************)
LoaderTables == <<"campaigns", "impressions", "clicks", "conversions">>
LoaderSteps == {"convert", "upload", "register"}

\* the loop turns to the next table
Continue(l) == [l EXCEPT !.step = "next"]
\* an exception nothing catches ends main()
Propagate(l, step) == [l EXCEPT !.pc = "failed", !.error = step]
Tried(l, step, name) == [l EXCEPT !.tried[step] = @ \cup {name}]
Succeeded(l, step, name) == [l EXCEPT !.succeeded[step] = @ \cup {name}]

\* create_glue_database: True when the database exists or was created,
\* False on a ClientError of create_database; any other exception of the
\* two calls is not caught
LoaderCreateDatabase ==
    /\ loader.pc = "database"
    /\ \E outcome \in {"exists", "created", "ClientError", "raised"} :
           loader' = CASE outcome \in {"exists", "created"} ->
                              [loader EXCEPT !.pc = "tables", !.db_ready = TRUE]
                       [] outcome = "ClientError" -> [loader EXCEPT !.pc = "returned"]
                       [] outcome = "raised" -> Propagate(loader, "database")
    /\ UNCHANGED <<cfg, pc, error, run, now, rng, progress, tables, imp_locals,
                   click_locals, conv_locals, files, prev, appender, sampling>>

\* the head of the loop: the next table name, skipped when its CSV file is
\* not there; after the last one main() prints the summary
LoaderNextTable ==
    /\ loader.pc = "tables"
    /\ loader.step = "next"
    /\ loader' = IF loader.idx = Len(LoaderTables)
                 THEN [loader EXCEPT !.pc = "done"]
                 ELSE [loader EXCEPT
                           !.idx = @ + 1,
                           !.step = IF LoaderTables[loader.idx + 1] \in loader.csv_present
                                    THEN "convert" ELSE "next"]
    /\ UNCHANGED <<cfg, pc, error, run, now, rng, progress, tables, imp_locals,
                   click_locals, conv_locals, files, prev, appender, sampling>>

\* convert_csv_to_parquet: every Exception is caught and gives False
LoaderConvert ==
    /\ loader.pc = "tables"
    /\ loader.step = "convert"
    /\ LET name == LoaderTables[loader.idx]
           tried == Tried(loader, "convert", name)
       IN  \E converted \in BOOLEAN :
               loader' = IF converted
                         THEN [Succeeded(tried, "convert", name) EXCEPT !.step = "upload"]
                         ELSE Continue(tried)
    /\ UNCHANGED <<cfg, pc, error, run, now, rng, progress, tables, imp_locals,
                   click_locals, conv_locals, files, prev, appender, sampling>>

\* upload_to_s3: only a ClientError is caught and gives False; upload_file
\* reports a failed transfer with S3UploadFailedError, which is not one
LoaderUpload ==
    /\ loader.pc = "tables"
    /\ loader.step = "upload"
    /\ LET name == LoaderTables[loader.idx]
           tried == Tried(loader, "upload", name)
       IN  \E outcome \in {"uploaded", "ClientError", "S3UploadFailedError"} :
               loader' = CASE outcome = "uploaded" ->
                                  [Succeeded(tried, "upload", name) EXCEPT !.step = "register"]
                           [] outcome = "ClientError" -> Continue(tried)
                           [] outcome = "S3UploadFailedError" -> Propagate(tried, "upload")
    /\ UNCHANGED <<cfg, pc, error, run, now, rng, progress, tables, imp_locals,
                   click_locals, conv_locals, files, prev, appender, sampling>>

\* create_iceberg_table: delete_table and create_table; a ClientError is
\* caught and gives False, any other exception is not caught
LoaderCreateTable ==
    /\ loader.pc = "tables"
    /\ loader.step = "register"
    /\ LET name == LoaderTables[loader.idx]
           tried == Tried(loader, "register", name)
       IN  \E outcome \in {"created", "ClientError", "raised"} :
               loader' = CASE outcome = "created" ->
                                  Continue(Succeeded(tried, "register", name))
                           [] outcome = "ClientError" -> Continue(tried)
                           [] outcome = "raised" -> Propagate(tried, "register")
    /\ UNCHANGED <<cfg, pc, error, run, now, rng, progress, tables, imp_locals,
                   click_locals, conv_locals, files, prev, appender, sampling>>

InitLoader ==
    /\ cfg = BaseConfig
    /\ run = 1
    /\ now = 0
    /\ tape = <<>>
    /\ prev = <<>>
    /\ FreshRun
    /\ iceberg_campaigns = <<>>
    /\ append_pc = "idle"
    /\ append_n = 0
    /\ new_campaigns = <<>>
    /\ sampling = [pc |-> "idle"]
    /\ \E present \in SUBSET Rows(LoaderTables) :
           loader = [pc |-> "database", csv_present |-> present, db_ready |-> FALSE,
                     idx |-> 0, step |-> "next", error |-> "none",
                     tried |-> [s \in LoaderSteps |-> {}],
                     succeeded |-> [s \in LoaderSteps |-> {}]]

NextLoader ==
    \/ LoaderCreateDatabase
    \/ LoaderNextTable
    \/ LoaderConvert
    \/ LoaderUpload
    \/ LoaderCreateTable

SpecLoader == InitLoader /\ [][NextLoader]_vars

(***************************************************************************)
(* Properties.                                                             *)
(***************************************************************************)
GenerationDone == finished = StageNames

\* C1: referential integrity.  Every click's impression_id is the
\* impression_id of a row of the impression table, and every conversion's
\* click_id is the click_id of a row of the click table.
ReferentialIntegrity ==
    /\ \A c \in Rows(clicks) :
           \E i \in Rows(impressions) : i.impression_id = c.impression_id
    /\ \A v \in Rows(conversions) :
           \E c \in Rows(clicks) : c.click_id = v.click_id

ReferentialIntegrityWitness ==
    /\ GenerationDone
    /\ Len(impressions) >= 2
    /\ Len(clicks) >= 2
    /\ Len(conversions) >= 1

\* C2: temporal ordering.  A click is strictly later than the impression it
\* references, and a conversion strictly later than the click it references.
TemporalOrdering ==
    /\ \A c \in Rows(clicks) : \A i \in Rows(impressions) :
           i.impression_id = c.impression_id => c.timestamp > i.timestamp
    /\ \A v \in Rows(conversions) : \A c \in Rows(clicks) :
           c.click_id = v.click_id => v.timestamp > c.timestamp

TemporalOrderingWitness ==
    /\ GenerationDone
    /\ \E c \in Rows(clicks) : \E i \in Rows(impressions) :
           /\ i.impression_id = c.impression_id
           /\ c.timestamp = i.timestamp + MinClickOffsetSeconds
    /\ \E v \in Rows(conversions) : \E c \in Rows(clicks) :
           /\ c.click_id = v.click_id
           /\ v.timestamp = c.timestamp + SecondsPerMinute

\* C4: eligibility filter.  No impression carries the campaign_id of a draft
\* or paused campaign: only active and completed campaigns have impressions.
ImpressionsOf(campaign) ==
    {i \in Rows(impressions) : i.campaign_id = campaign.campaign_id}

EligibilityFilter ==
    \A c \in Rows(campaigns) :
        /\ c.status \in {"draft", "paused"} => ImpressionsOf(c) = {}
        /\ ImpressionsOf(c) # {} => c.status \in {"active", "completed"}

EligibilityFilterWitness ==
    /\ "impressions" \in Rows(finished)
    /\ \E c \in Rows(campaigns) : c.status \in {"draft", "paused"}
    /\ \E c \in Rows(campaigns) : ImpressionsOf(c) # {}

\* C3: determinism.  Two runs with the same configuration and the same seed
\* write the same four tables: same rows, same values, same order.
WroteAll(written) == Len(written) = Len(TableNames)

Determinism ==
    (run > 1 /\ WroteAll(prev) /\ WroteAll(csv_files)) => csv_files = prev

\* C5: configuration errors fail fast.  With an invalid count, rate or date
\* range, no generation stage ever begins.
ValidRate(r) == 0 <= r /\ r <= PercentScale
ValidWindow(c) == c.end_dt - c.start_dt > Days(HeadroomDays)
ValidConfig(c) ==
    /\ c.num_campaigns >= 0
    /\ c.impressions_per_campaign >= 0
    /\ ValidRate(c.click_rate)
    /\ ValidRate(c.conversion_rate)
    /\ ValidWindow(c)

ConfigErrorsFailFast == ~ValidConfig(cfg) => started = <<>>

\* C6: no partial success.  A table is written only once all four stages
\* have completed; a run that is abandoned during generation has written no
\* table, and a run that got past saving has written all four, as generated.
Written == Rows(csv_files) \cup Rows(parquet_files)

MaxSequence == MaxCampaigns + 2 * MaxImpressions
\* the ids of one table by sequence number, as the generator formats them
IdsOf(prefix, width) == [n \in 1..MaxSequence |-> FormatId(prefix, n, width)]
CampaignIds == IdsOf("CMP-", CampaignIdWidth)
ImpressionIds == IdsOf("IMP-", EventIdWidth)
ClickIds == IdsOf("CLK-", EventIdWidth)
ConversionIds == IdsOf("CNV-", EventIdWidth)
\* the sequence numbers n for which the id is the formatted n
SequenceOf(id, formatted) == {n \in 1..MaxSequence : formatted[n] = id}
IdsIncrease(ids, formatted) ==
    /\ \A j \in 1..Len(ids) : SequenceOf(ids[j], formatted) # {}
    /\ \A j \in 1..(Len(ids) - 1) :
           \A k \in (j + 1)..Len(ids) :
               /\ ids[j] # ids[k]
               /\ \A a \in SequenceOf(ids[j], formatted) :
                      \A b \in SequenceOf(ids[k], formatted) : a < b

IdsUniqueAndMonotonic ==
    /\ IdsIncrease([k \in 1..Len(campaigns) |-> campaigns[k].campaign_id], CampaignIds)
    /\ IdsIncrease([k \in 1..Len(impressions) |-> impressions[k].impression_id],
                   ImpressionIds)
    /\ IdsIncrease([k \in 1..Len(clicks) |-> clicks[k].click_id], ClickIds)
    /\ IdsIncrease([k \in 1..Len(conversions) |-> conversions[k].conversion_id],
                   ConversionIds)

IdsUniqueAndMonotonicWitness ==
    /\ Len(campaigns) >= 2
    /\ Len(impressions) >= 2
    /\ impressions[1].campaign_id # impressions[2].campaign_id
    /\ Len(clicks) >= 1
    /\ Len(conversions) >= 1

\* C8: lookup-miss fallback.  A click whose campaign is not in the lookup
\* does not make generate_conversions raise; the conversion is emitted with
\* a revenue of the fallback CPA of 50 times a factor in [0.5, 5.0], and a
\* click whose campaign is in the lookup gets that campaign's CPA.
RevenuesOf(target_cpa) ==
    {Revenue(target_cpa, f) : f \in MinRevenueFactorPct..MaxRevenueFactorPct}

LookupMissFallback ==
    /\ error # "KeyError"
    /\ \A k \in 1..Len(conversions) :
           /\ conversions[k].click_id = converted_clicks[k].click_id
           /\ IF conversions[k].campaign_id \in DOMAIN campaign_cpa
              THEN conversions[k].revenue_usd
                       \in RevenuesOf(campaign_cpa[conversions[k].campaign_id])
              ELSE conversions[k].revenue_usd
                       \in RevenuesOf(FallbackCpaUsd * CentsPerDollar)
    /\ "conversions" \in Rows(finished) => Len(conversions) = Len(converted_clicks)

LookupMissFallbackWitness ==
    /\ "conversions" \in Rows(finished)
    /\ \E v \in Rows(conversions) : v.campaign_id \notin DOMAIN campaign_cpa
    /\ \E v \in Rows(conversions) : v.campaign_id \in DOMAIN campaign_cpa

\* C9 as stated: with a window of more than 30 days, every campaign's
\* [start_date, end_date] lies inside [start, end], and start_date is at
\* least 30 days before end.
CampaignWindowContained ==
    ValidWindow(cfg) =>
        \A c \in Rows(campaigns) :
            /\ cfg.start_dt <= FromIsoDate(c.start_date)
            /\ FromIsoDate(c.end_date) <= cfg.end_dt
            /\ FromIsoDate(c.start_date) + Days(HeadroomDays) <= cfg.end_dt

\* C9 as amended: with a window of more than 30 days, every campaign's
\* start_date is no earlier than the calendar date of start and at least 30
\* days before end, and its end_date is 7 to 90 days after its start_date
\* (it may lie after end).
CampaignWindowStartContained ==
    ValidWindow(cfg) =>
        \A c \in Rows(campaigns) :
            /\ DateOf(cfg.start_dt) <= c.start_date
            /\ FromIsoDate(c.start_date) + Days(HeadroomDays) <= cfg.end_dt
            /\ c.start_date + MinDurationDays <= c.end_date
            /\ c.end_date <= c.start_date + MaxDurationDays

CampaignWindowStartContainedWitness ==
    /\ ValidWindow(cfg)
    /\ \E c \in Rows(campaigns) : FromIsoDate(c.end_date) > cfg.end_dt
    /\ \E c \in Rows(campaigns) : FromIsoDate(c.end_date) <= cfg.end_dt

\* C10: impression timestamp window.  An impression's timestamp is not
\* earlier than its campaign's start_date and not later than the earlier of
\* its campaign's end_date and the end of the run's window.
ImpressionWindow ==
    \A i \in Rows(impressions) : \A c \in Rows(campaigns) :
        c.campaign_id = i.campaign_id =>
            /\ FromIsoDate(c.start_date) <= i.timestamp
            /\ i.timestamp <= FromIsoDate(c.end_date)
            /\ i.timestamp <= cfg.end_dt

ImpressionWindowWitness ==
    \E i \in Rows(impressions) : \E c \in Rows(campaigns) :
        /\ c.campaign_id = i.campaign_id
        /\ i.timestamp = cfg.end_dt
        /\ FromIsoDate(c.end_date) > cfg.end_dt

\* C11: click offset bound.  The timestamp of a click minus the timestamp of
\* the impression it references is a whole number of seconds from 1 to 30.
ClickOffsetBound ==
    \A c \in Rows(clicks) : \A i \in Rows(impressions) :
        i.impression_id = c.impression_id =>
            c.timestamp - i.timestamp \in MinClickOffsetSeconds..MaxClickOffsetSeconds

ClickOffsetBoundWitness ==
    /\ "clicks" \in Rows(finished)
    /\ \E c \in Rows(clicks) : \E i \in Rows(impressions) :
           /\ i.impression_id = c.impression_id
           /\ c.timestamp - i.timestamp = MaxClickOffsetSeconds

\* C12: sampling without replacement.  No two clicks reference the same
\* impression_id and no two conversions the same click_id; the click table
\* is no longer than the impression table and the conversion table no
\* longer than the click table.
SamplingWithoutReplacement ==
    /\ \A j, k \in 1..Len(clicks) :
           j # k => clicks[j].impression_id # clicks[k].impression_id
    /\ \A j, k \in 1..Len(conversions) :
           j # k => conversions[j].click_id # conversions[k].click_id
    /\ Len(clicks) <= Len(impressions)
    /\ Len(conversions) <= Len(clicks)

SamplingWithoutReplacementWitness ==
    /\ GenerationDone
    /\ Len(impressions) >= 2
    /\ Len(clicks) = Len(impressions)
    /\ Len(conversions) = Len(clicks)

\* C13: incremental append does not perturb existing rows.  A step of the
\* append script leaves every row of the campaigns table in place with its
\* values; the rows it adds have ids with the prefix CMP-NEW-, none of
\* which is an id of the primary CMP-###### sequence.
LastSequence == DefaultStartId + MaxRuns * MaxNewCampaigns
NewPrefixedIds == {NewCampaignId(n) : n \in 0..LastSequence}
PrimaryIds == {CampaignId(n) : n \in 1..LastSequence}

AppendKeepsRows ==
    [][/\ Len(iceberg_campaigns') >= Len(iceberg_campaigns)
       /\ SubSeq(iceberg_campaigns', 1, Len(iceberg_campaigns)) = iceberg_campaigns
       /\ \A k \in (Len(iceberg_campaigns) + 1)..Len(iceberg_campaigns') :
              /\ iceberg_campaigns'[k].campaign_id \in NewPrefixedIds
              /\ iceberg_campaigns'[k].campaign_id \notin PrimaryIds]_vars

AppendKeepsRowsWitness ==
    /\ append_pc = "done"
    /\ \E row \in Rows(iceberg_campaigns) : row.campaign_id \in PrimaryIds
    /\ \E row \in Rows(iceberg_campaigns) : row.campaign_id \in NewPrefixedIds

\* C14: appended campaigns have unique ids.  After any number of runs of
\* the append script the campaign_id values of the campaigns table are
\* pairwise distinct.
AppendedIdsUnique ==
    \A j, k \in 1..Len(iceberg_campaigns) :
        j # k => iceberg_campaigns[j].campaign_id # iceberg_campaigns[k].campaign_id

\* count/len lies within 20% (relative) of num/den
Abs(x) == IF x < 0 THEN 0 - x ELSE x
WithinTolerance(count, rate, len) ==
    5 * Abs(count * rate.den - rate.num * len) <= rate.num * len
\* rate * len >= 2.5
AtLeastTwoAndAHalf(rate, len) == 2 * rate.num * len >= 5 * rate.den

\* C15 as stated: with at least 100,000 impressions and any click rate in
\* (0, 1], clicks/impressions lies within 20% of the click rate, and with a
\* click table that large conversions/clicks within 20% of the conversion
\* rate.
RateConvergence ==
    /\ (sampling.pc \in {"clicks", "conversions"} /\ sampling.len >= LargePopulation) =>
           WithinTolerance(sampling.clicks, sampling.click_rate, sampling.len)
    /\ (sampling.pc = "conversions" /\ sampling.clicks >= LargePopulation) =>
           WithinTolerance(sampling.conversions, sampling.conversion_rate, sampling.clicks)

\* C15 as amended: clicks/impressions lies within 20% of the click rate r
\* whenever r x impressions is at least 2.5 (with 100,000 impressions,
\* r >= 0.000025), and conversions/clicks within 20% of the conversion rate
\* c whenever c x clicks is at least 2.5.
RateConvergenceAboveTwoAndAHalf ==
    /\ (/\ sampling.pc \in {"clicks", "conversions"}
        /\ sampling.len >= LargePopulation
        /\ AtLeastTwoAndAHalf(sampling.click_rate, sampling.len)) =>
           WithinTolerance(sampling.clicks, sampling.click_rate, sampling.len)
    /\ (/\ sampling.pc = "conversions"
        /\ AtLeastTwoAndAHalf(sampling.conversion_rate, sampling.clicks)) =>
           WithinTolerance(sampling.conversions, sampling.conversion_rate, sampling.clicks)

RateConvergenceAboveTwoAndAHalfWitness ==
    /\ sampling.pc = "conversions"
    /\ AtLeastTwoAndAHalf(sampling.click_rate, sampling.len)
    /\ sampling.clicks < sampling.len
    /\ sampling.clicks * sampling.click_rate.den # sampling.click_rate.num * sampling.len
    /\ AtLeastTwoAndAHalf(sampling.conversion_rate, sampling.clicks)
    /\ sampling.conversions < sampling.clicks

\* C16: partition fields follow the record's own timestamp.  The date_key
\* of every impression, click and conversion is the calendar date of that
\* record's timestamp, and the hour of every impression is the hour of its
\* timestamp.
PartitionFields ==
    /\ \A i \in Rows(impressions) :
           /\ i.date_key = DateOf(i.timestamp)
           /\ i.hour = HourOf(i.timestamp)
    /\ \A c \in Rows(clicks) : c.date_key = DateOf(c.timestamp)
    /\ \A v \in Rows(conversions) : v.date_key = DateOf(v.timestamp)

PartitionFieldsWitness ==
    /\ \E c \in Rows(clicks) : \E i \in Rows(impressions) :
           /\ i.impression_id = c.impression_id
           /\ i.hour > 0
           /\ c.date_key = i.date_key + 1
    /\ \E v \in Rows(conversions) : \E c \in Rows(clicks) :
           /\ c.click_id = v.click_id
           /\ v.date_key > c.date_key

\* C17: non-negative revenue.  Every conversion's revenue is at least 0 and
\* lies between 0.5 and 5.0 times the target_cpa of the campaign it names,
\* rounded to cents.
RevenueOfTargetCpa ==
    \A v \in Rows(conversions) :
        /\ v.revenue_usd >= 0
        /\ \E c \in Rows(campaigns) :
               /\ c.campaign_id = v.campaign_id
               /\ RoundHalfEven(c.target_cpa_usd * MinRevenueFactorPct, PercentScale)
                      <= v.revenue_usd
               /\ v.revenue_usd
                      <= RoundHalfEven(c.target_cpa_usd * MaxRevenueFactorPct, PercentScale)

RevenueOfTargetCpaWitness ==
    /\ GenerationDone
    /\ \E v \in Rows(conversions) : \E c \in Rows(campaigns) :
           /\ c.campaign_id = v.campaign_id
           /\ c.target_cpa_usd = MaxTargetCpaUsd * CentsPerDollar
           /\ v.revenue_usd = MaxTargetCpaUsd * MaxRevenueFactorPct

\* C18 as stated: in a run with a valid configuration, once
\* generate_impressions has returned, every active or completed campaign has
\* at least M/2 and at most 2*M impressions.
ImpressionCount(campaign) == Cardinality(ImpressionsOf(campaign))

FanOutRange ==
    (ValidConfig(cfg) /\ "impressions" \in Rows(finished)) =>
        \A c \in Rows(campaigns) :
            c.status \in {"active", "completed"} =>
                /\ 2 * ImpressionCount(c) >= cfg.impressions_per_campaign
                /\ ImpressionCount(c) <= 2 * cfg.impressions_per_campaign

\* C18 as amended: once generate_impressions has returned, every active or
\* completed campaign has at least M/2 rounded down and at most 2*M
\* impressions.
FanOutRangeFromFloor ==
    "impressions" \in Rows(finished) =>
        \A c \in Rows(campaigns) :
            c.status \in {"active", "completed"} =>
                /\ ImpressionCount(c) >= cfg.impressions_per_campaign \div 2
                /\ ImpressionCount(c) <= 2 * cfg.impressions_per_campaign

FanOutRangeFromFloorWitness ==
    /\ "impressions" \in Rows(finished)
    /\ \E c \in Rows(campaigns) :
           /\ c.status \in {"active", "completed"}
           /\ 2 * ImpressionCount(c) < cfg.impressions_per_campaign
    /\ \E c \in Rows(campaigns) :
           ImpressionCount(c) = 2 * cfg.impressions_per_campaign

\* C19: denormalized fields are carried.  A click has the campaign_id,
\* device_type, geo_region and geo_country of its impression; a conversion
\* has the impression_id, campaign_id, device_type and geo_region of its
\* click, and the campaign_id of the impression at the root of its chain.
DenormalizedFieldsCarried ==
    /\ \A c \in Rows(clicks) : \A i \in Rows(impressions) :
           i.impression_id = c.impression_id =>
               /\ c.campaign_id = i.campaign_id
               /\ c.device_type = i.device_type
               /\ c.geo_region = i.geo_region
               /\ c.geo_country = i.geo_country
    /\ \A v \in Rows(conversions) : \A c \in Rows(clicks) :
           c.click_id = v.click_id =>
               /\ v.impression_id = c.impression_id
               /\ v.campaign_id = c.campaign_id
               /\ v.device_type = c.device_type
               /\ v.geo_region = c.geo_region
    /\ \A v \in Rows(conversions) : \A i \in Rows(impressions) :
           i.impression_id = v.impression_id => v.campaign_id = i.campaign_id

DenormalizedFieldsCarriedWitness ==
    /\ GenerationDone
    /\ \E v, w \in Rows(conversions) :
           /\ v.device_type # w.device_type
           /\ v.geo_region # w.geo_region

\* C20: strict stage ordering.  The stages begin in the order campaigns,
\* impressions, clicks, conversions, each at most once; a stage has begun
\* only if the stage before it has completed with its whole table, and a
\* table has rows only if its stage has begun.
IsPrefix(s, t) == Len(s) <= Len(t) /\ s = SubSeq(t, 1, Len(s))
StageComplete(k) ==
    CASE k = 1 -> Len(campaigns) >= cfg.num_campaigns
      [] k = 2 -> num_left = 0 /\ campaign_idx = Len(active_campaigns)
      [] k = 3 -> Len(clicks) = Len(clicked_impressions)
      [] k = 4 -> Len(conversions) = Len(converted_clicks)

StrictStageOrdering ==
    /\ IsPrefix(started, StageNames)
    /\ IsPrefix(finished, StageNames)
    /\ Len(finished) <= Len(started)
    /\ Len(started) <= Len(finished) + 1
    /\ \A k \in 1..Len(StageNames) :
           /\ Len(TableOf(StageNames[k])) > 0 => k <= Len(started)
           /\ k <= Len(finished) => StageComplete(k)
           /\ (k > 1 /\ k <= Len(started)) => k - 1 <= Len(finished)

StrictStageOrderingWitness ==
    /\ pc = "done"
    /\ started = StageNames
    /\ finished = StageNames
    /\ Len(campaigns) >= 2
    /\ Len(conversions) >= 1

\* C21: upstream tables are read-only.  Once the stage that builds a table
\* has returned, no later step changes the table: generate_impressions
\* leaves the campaign table as it was, generate_clicks the impression
\* table, and generate_conversions the click table and the campaign table.
UpstreamReadOnly ==
    [][\A k \in 1..Len(StageNames) :
           StageNames[k] \in Rows(finished') =>
               TableOf(StageNames[k])' = TableOf(StageNames[k])]_vars

UpstreamReadOnlyWitness ==
    /\ pc = "done"
    /\ Len(campaigns) >= 1
    /\ Len(clicks) >= 1
    /\ Len(clicks) < Len(impressions)
    /\ Len(conversions) = Len(clicks)

\* C22: loader step guard.  A Glue table is created for a table name only
\* once the database is ready and that table's conversion and upload have
\* succeeded in this run; when the database cannot be made ready no table
\* is converted, uploaded or registered; a failed conversion or upload skips
\* the rest of that table's steps, and the tables after it are still
\* processed.
LoaderEnded == loader.pc \in {"done", "returned", "failed"}

LoaderStepGuard ==
    loader.pc # "idle" =>
        /\ loader.tried["register"] # {} => loader.db_ready
        /\ loader.tried["register"] \subseteq
               loader.succeeded["convert"] \cap loader.succeeded["upload"]
        /\ ~loader.db_ready => \A s \in LoaderSteps : loader.tried[s] = {}
        /\ loader.tried["upload"] \subseteq loader.succeeded["convert"]
        /\ (LoaderEnded /\ loader.db_ready /\ loader.error # "register") =>
               loader.csv_present \subseteq loader.tried["convert"]

====
